---- MODULE Spec2Model ----
(***************************************************************************)
(* Model of app.py, the Executive SCP Savings Dashboard: the loader        *)
(* load_data_from_onedrive with its st.cache_data memoisation, the         *)
(* module-level script run (load, preprocessing, error branch) and the     *)
(* Reload Data button.                                                     *)
(***************************************************************************)
EXTENDS Integers, Sequences, FiniteSets, TLC

VARIABLES
    res,      \* observation of the last direct call of load_data_from_onedrive
    cache,    \* st.cache_data store of load_data_from_onedrive, keyed by URL
    clock,    \* elapsed time, in units of the five-minute window of the spec
    run,      \* observation of the last script run
    raw,      \* a raw dataset handed to the preprocessing block
    norm,     \* the outcome of the preprocessing block on raw
    again,    \* the outcome of the preprocessing block on its own result
    view      \* the filter widgets and the filtered dataset of a run

vars == <<res, cache, clock, run, raw, norm, again, view>>

-----------------------------------------------------------------------------
(* Bounds *)

MaxRows == 2
MaxClock == 2

-----------------------------------------------------------------------------
(* Values *)

\* Optional values: None is the empty tuple, Some(x) a one-element tuple.
None == <<>>
Some(x) == <<x>>

\* Python returns and raises.
Return(x) == [raised |-> FALSE, exc |-> "", val |-> Some(x)]
Raise(e) == [raised |-> TRUE, exc |-> e, val |-> None]

\* Cells of a dataframe.  Date(d) is midnight of day d, DateTime(d) a later
\* time of the same day.
Num(n) == [k |-> "num", v |-> n]
NumStr(n) == [k |-> "numstr", v |-> n]
Date(d) == [k |-> "date", v |-> d]
DateTime(d) == [k |-> "datetime", v |-> d]
DateStr(d) == [k |-> "datestr", v |-> d]
Text == [k |-> "text", v |-> 0]
Null == [k |-> "null", v |-> 0]

\* Column names.
FinSrc == "Difference (PA)-Finance"
ScpSrc == "Difference (PA) -SCP"
SavingsFinance == "Savings_Finance"
SavingsSCP == "Savings_SCP"
ContractStart == "Contract Start"
ContractEnd == "Contract End"
Domain == "Domain"

\* A dataframe: column labels in order, and rows of cells aligned with them.
DataFrame(cols, rows) == [cols |-> cols, rows |-> rows]

Range(s) == {s[i] : i \in 1..Len(s)}

\* Positions of a label in the column index.
ColPos(df, name) == {i \in 1..Len(df.cols) : df.cols[i] = name}

HasCol(df, name) == ColPos(df, name) # {}

\* Messages of load_data_from_onedrive.
MsgRemote == "OneDrive file loaded successfully"
MsgLocal == "Using local file (OneDrive integration pending)"
MsgUnable == "Unable to load data from OneDrive or local file"
MsgError == "Error loading data"

-----------------------------------------------------------------------------
(* The world the loader reads: spreadsheet byte streams and HTTP outcomes *)

SheetName == "Savings_WIP_Data"
OtherSheet == "Sheet1"
LocalPath == "SCP_Savings_FY26_dummy_v3.xlsx"

\* Sample calendar days (days since 1970-01-01).
Day1 == 19000
Day2 == 20000

FullCols == <<FinSrc, ScpSrc, ContractStart, ContractEnd, Domain>>

\* A well-typed sheet of n rows; tag tells the sheets of different sources apart.
Frame(tag, n) ==
    DataFrame(FullCols,
              [i \in 1..n |-> <<Num(i), Num(0 - i), Date(Day1), Date(Day2), Num(tag)>>])

RemoteTag == 1
LocalTag == 2
OtherTag == 3

\* A byte stream: whether the file exists, whether it starts with a
\* spreadsheet signature, whether its size exceeds the minimum size the
\* specification asks for, whether it is a well-formed workbook, and the
\* sheets it holds.
Stream(present, sig, big, wellformed, sheets, frame) ==
    [present |-> present, sig |-> sig, big |-> big, wellformed |-> wellformed,
     sheets |-> sheets,
     data |-> [s \in {SheetName, OtherSheet} |->
                 IF s = SheetName THEN frame ELSE Frame(OtherTag, 1)]]

Workbook(big, sheets, frame) == Stream(TRUE, TRUE, big, TRUE, sheets, frame)

Streams(tag) ==
    {Stream(TRUE, FALSE, big, FALSE, {}, Frame(tag, 0)) : big \in BOOLEAN}
    \cup {Stream(TRUE, TRUE, big, FALSE, {}, Frame(tag, 0)) : big \in BOOLEAN}
    \cup {Workbook(big, {OtherSheet}, Frame(tag, 0)) : big \in BOOLEAN}
    \cup {Workbook(big, sh, Frame(tag, n)) :
            big \in BOOLEAN, sh \in {{SheetName}, {SheetName, OtherSheet}},
            n \in 0..MaxRows}

AbsentFile == Stream(FALSE, FALSE, FALSE, FALSE, {}, Frame(LocalTag, 0))

LocalFiles == {AbsentFile} \cup Streams(LocalTag)

OtherPath == "other.xlsx"

\* The file system: the fallback path holds local, another path a workbook.
FileSystem(local) ==
    [p \in {LocalPath, OtherPath} |->
        IF p = LocalPath THEN local ELSE Workbook(TRUE, {SheetName}, Frame(OtherTag, 1))]

HttpOK == 200
StatusCodes == {HttpOK, 404}

Timeout == [kind |-> "timeout", status_code |-> 0, content |-> AbsentFile]
ConnectionError == [kind |-> "connerror", status_code |-> 0, content |-> AbsentFile]
Response(code, content) == [kind |-> "response", status_code |-> code, content |-> content]

RemoteOutcomes ==
    {Timeout, ConnectionError}
    \cup {Response(c, p) : c \in StatusCodes, p \in Streams(RemoteTag)}

DefaultUrl == "https://1drv.ms/x/c/9e1c07238f947303/EbI62L-aBvdDgxmyFIMOdugB5BoH7r7ATZcU1ywNSR1Psw?e=ai5TM1"
OtherUrl == "https://example.org/other.xlsx"
Urls == {DefaultUrl, OtherUrl}

-----------------------------------------------------------------------------
(* Library calls used by the loader *)

\* requests.get(url, timeout=30): a response, or a transport exception.
requests_get(o) ==
    IF o.kind = "timeout" THEN Raise("Timeout")
    ELSE IF o.kind = "connerror" THEN Raise("ConnectionError")
    ELSE Return([status_code |-> o.status_code, content |-> o.content])

\* pd.read_excel(stream, sheet_name=...): the named sheet, or an exception.
read_excel(f, sheet_name) ==
    IF ~f.present THEN Raise("FileNotFoundError")
    ELSE IF ~f.sig THEN Raise("ValueError")
    ELSE IF ~f.wellformed THEN Raise("BadZipFile")
    ELSE IF sheet_name \notin f.sheets THEN Raise("ValueError")
    ELSE Return(f.data[sheet_name])

-----------------------------------------------------------------------------
(* load_data_from_onedrive *)

\* The reads the loader performs.
Get(url) == [op |-> "GET", target |-> url]
Read(path) == [op |-> "READ", target |-> path]

\* How a block of statements ends: "return" with (df, msg), "raise" with
\* exc, or "fall" through to the next statement.
Ends(kind, df, msg, exc, log) ==
    [kind |-> kind, df |-> df, msg |-> msg, exc |-> exc, log |-> log]

\* An except clause that catches the transport exceptions only.
BareExcept_TransportOnly(exc) == exc \in {"Timeout", "ConnectionError"}

\* The bare except clauses of lines 159 and 166 catch every exception.
BareExcept(exc) == TRUE

\* The clause "except Exception" of line 169.
ExceptException(exc) == TRUE

\* The inner try without the test of the status code.
TryRemote_NoStatusCheck(url, o) ==
    LET r == requests_get(o)
    IN  IF r.raised THEN Ends("raise", None, "", r.exc, <<Get(url)>>)
        ELSE LET x == read_excel(r.val[1].content, SheetName)
             IN  IF x.raised
                 THEN Ends("raise", None, "", x.exc, <<Get(url)>>)
                 ELSE Ends("return", x.val, MsgRemote, "", <<Get(url)>>)

\* The inner try with an empty sheet treated as a failed attempt.
TryRemote_RejectEmpty(url, o) ==
    LET r == requests_get(o)
    IN  IF r.raised THEN Ends("raise", None, "", r.exc, <<Get(url)>>)
        ELSE LET response == r.val[1]
             IN  IF response.status_code = HttpOK
                 THEN LET x == read_excel(response.content, SheetName)
                      IN  IF x.raised
                          THEN Ends("raise", None, "", x.exc, <<Get(url)>>)
                          ELSE IF Len(x.val[1].rows) = 0
                          THEN Ends("fall", None, "", "", <<Get(url)>>)
                          ELSE Ends("return", x.val, MsgRemote, "", <<Get(url)>>)
                 ELSE Ends("fall", None, "", "", <<Get(url)>>)

\* Lines 155-158: the body of the inner try.
TryRemote(url, o) ==
    LET r == requests_get(o)
    IN  IF r.raised THEN Ends("raise", None, "", r.exc, <<Get(url)>>)
        ELSE LET response == r.val[1]
             IN  IF response.status_code = HttpOK
                 THEN LET x == read_excel(response.content, SheetName)
                      IN  IF x.raised
                          THEN Ends("raise", None, "", x.exc, <<Get(url)>>)
                          ELSE Ends("return", x.val, MsgRemote, "", <<Get(url)>>)
                 ELSE Ends("fall", None, "", "", <<Get(url)>>)

\* Lines 154-160: the inner try with its "except: pass".
RemoteBlock(url, o) ==
    LET t == TryRemote(url, o)
    IN  IF t.kind = "raise" /\ BareExcept(t.exc)
        THEN Ends("fall", None, "", "", t.log)
        ELSE t

\* The local fallback reading another sheet of the file.
LocalBlock_OtherSheet(fs) ==
    LET x == read_excel(fs[LocalPath], OtherSheet)
    IN  IF x.raised
        THEN Ends("return", None, MsgUnable, "", <<Read(LocalPath)>>)
        ELSE Ends("return", x.val, MsgLocal, "", <<Read(LocalPath)>>)

\* Lines 163-167: the local fallback.
LocalBlock(fs) ==
    LET x == read_excel(fs[LocalPath], SheetName)
    IN  IF x.raised
        THEN IF BareExcept(x.exc)
             THEN Ends("return", None, MsgUnable, "", <<Read(LocalPath)>>)
             ELSE Ends("raise", None, "", x.exc, <<Read(LocalPath)>>)
        ELSE Ends("return", x.val, MsgLocal, "", <<Read(LocalPath)>>)

\* The loader reading the local file before the remote attempt.
load_data_from_onedrive_LocalFirst(url, o, fs) ==
    LET l == LocalBlock(fs)
        a == RemoteBlock(url, o)
    IN  IF l.df # None
        THEN [raised |-> FALSE, df |-> l.df, msg |-> l.msg, log |-> l.log]
        ELSE IF a.kind = "return"
        THEN [raised |-> FALSE, df |-> a.df, msg |-> a.msg, log |-> l.log \o a.log]
        ELSE [raised |-> FALSE, df |-> None, msg |-> MsgUnable, log |-> l.log \o a.log]

\* Lines 145-170: the whole function.  The result records whether an
\* exception escaped, the returned pair and the reads performed, in order.
load_data_from_onedrive(url, o, fs) ==
    LET a == RemoteBlock(url, o)
        b == IF a.kind = "fall"
             THEN LET l == LocalBlock(fs)
                  IN  [l EXCEPT !.log = a.log \o l.log]
             ELSE a
    IN  IF b.kind = "raise"
        THEN IF ExceptException(b.exc)
             THEN [raised |-> FALSE, df |-> None, msg |-> MsgError, log |-> b.log]
             ELSE [raised |-> TRUE, df |-> None, msg |-> "", log |-> b.log]
        ELSE [raised |-> FALSE, df |-> b.df, msg |-> b.msg, log |-> b.log]


-----------------------------------------------------------------------------
(* Data preprocessing, lines 211-225 *)

\* A rename map that also sends a canonical name back to its source name.
RenameMap_Swap(name) ==
    IF name = FinSrc THEN SavingsFinance
    ELSE IF name = SavingsFinance THEN FinSrc
    ELSE IF name = ScpSrc THEN SavingsSCP
    ELSE IF name = SavingsSCP THEN ScpSrc
    ELSE name

\* df.rename(columns={...}, inplace=True): relabels, touches no cell.
RenameMap(name) ==
    IF name = FinSrc THEN SavingsFinance
    ELSE IF name = ScpSrc THEN SavingsSCP
    ELSE name

rename(df) == DataFrame([i \in 1..Len(df.cols) |-> RenameMap(df.cols[i])], df.rows)

\* pd.to_numeric(x, errors="coerce") on one value: NaN when it fails.
to_numeric(c) ==
    CASE c.k = "num" -> c
      [] c.k = "numstr" -> Num(c.v)
      [] c.k = "text" -> Null
      [] c.k = "null" -> Null

\* The coercion without the fillna(0).
fillna0_Missing(c) == c

\* Series.fillna(0) on one value.
fillna0(c) == IF c.k = "null" THEN Num(0) ELSE c

\* A conversion that defaults an unparseable value to the epoch.
to_datetime_Epoch(c) ==
    CASE c.k = "date" -> c
      [] c.k = "datetime" -> c
      [] c.k = "datestr" -> Date(c.v)
      [] c.k = "num" -> DateTime(0)
      [] c.k = "text" -> Date(0)
      [] c.k = "null" -> Null

\* pd.to_datetime(x, errors="coerce") on one value: NaT when it fails; an
\* integer is read as nanoseconds since 1970-01-01 (a time of day 0 for
\* the samples).
to_datetime(c) ==
    CASE c.k = "date" -> c
      [] c.k = "datetime" -> c
      [] c.k = "datestr" -> Date(c.v)
      [] c.k = "num" -> DateTime(0)
      [] c.k = "text" -> Null
      [] c.k = "null" -> Null

NumericCell(c) == fillna0(to_numeric(c))

\* The two conversions assigned back to a column.
Convert(how, c) == IF how = "numeric" THEN NumericCell(c) ELSE to_datetime(c)

\* An assignment that also drops the rows whose converted value is null.
MapColumn_DropNull(df, i, how) ==
    DataFrame(df.cols,
              SelectSeq([r \in 1..Len(df.rows) |->
                           [j \in 1..Len(df.cols) |->
                              IF j = i THEN Convert(how, df.rows[r][j])
                              ELSE df.rows[r][j]]],
                        LAMBDA row : row[i] # Null))

\* df[name] = conversion of df[name], for a label at the single position i.
MapColumn(df, i, how) ==
    DataFrame(df.cols,
              [r \in 1..Len(df.rows) |->
                 [j \in 1..Len(df.cols) |->
                    IF j = i THEN Convert(how, df.rows[r][j]) ELSE df.rows[r][j]]])

\* A coercion that creates a missing column filled with zeros.
CoerceNumeric_ZeroFill(df, name) ==
    LET pos == ColPos(df, name)
    IN  IF pos = {}
        THEN Return(DataFrame(Append(df.cols, name),
                              [r \in 1..Len(df.rows) |-> Append(df.rows[r], Num(0))]))
        ELSE IF Cardinality(pos) > 1 THEN Raise("TypeError")
        ELSE Return(MapColumn(df, CHOOSE i \in pos : TRUE, "numeric"))

\* Lines 218 and 219: df[name] = pd.to_numeric(df[name], errors="coerce").fillna(0).
\* A missing label raises KeyError; a label that occurs twice selects a
\* frame, which to_numeric rejects with TypeError.
CoerceNumeric(df, name) ==
    LET pos == ColPos(df, name)
    IN  IF pos = {} THEN Raise("KeyError")
        ELSE IF Cardinality(pos) > 1 THEN Raise("TypeError")
        ELSE Return(MapColumn(df, CHOOSE i \in pos : TRUE, "numeric"))

\* Lines 224 and 225: if col in df.columns: df[col] = pd.to_datetime(...).
CoerceDate(df, name) ==
    LET pos == ColPos(df, name)
    IN  IF pos = {} THEN Return(df)
        ELSE IF Cardinality(pos) > 1 THEN Raise("ValueError")
        ELSE Return(MapColumn(df, CHOOSE i \in pos : TRUE, "datetime"))

date_columns == <<ContractStart, ContractEnd>>

\* The loop of lines 223-225 from the k-th designated column on.
RECURSIVE CoerceDates(_, _)
CoerceDates(df, k) ==
    IF k > Len(date_columns) THEN Return(df)
    ELSE LET x == CoerceDate(df, date_columns[k])
         IN  IF x.raised THEN x ELSE CoerceDates(x.val[1], k + 1)

\* Lines 212-225 on a loaded dataframe: the dataframe at the end of the
\* block, or the exception that aborts the script run.
normalize(df) ==
    LET a == rename(df)
        b == CoerceNumeric(a, SavingsFinance)
    IN  IF b.raised THEN b
        ELSE LET c == CoerceNumeric(b.val[1], SavingsSCP)
             IN  IF c.raised THEN c
                 ELSE CoerceDates(c.val[1], 1)

\* Raw datasets handed to the preprocessing block.
FinCells == <<Num(3), NumStr(5), Text, Null>>
DateCells == <<Date(Day1), DateStr(Day2), Text, Null, Num(7)>>

Headers ==
    {FullCols,
     <<FinSrc, ScpSrc, Domain>>,
     <<Domain, ScpSrc, ContractStart>>,
     <<FinSrc, ContractEnd, Domain>>,
     <<SavingsFinance, SavingsSCP, ContractStart, Domain>>,
     <<FinSrc, SavingsFinance, ScpSrc, Domain>>,
     <<ContractEnd, ScpSrc, FinSrc>>}

\* The cell of a column in the row drawn as (i, j): the finance columns
\* take the i-th numeric sample and its successor, the date columns the
\* j-th date sample and its successor.
SampleCell(name, i, j) ==
    IF name \in {FinSrc, SavingsFinance} THEN FinCells[i]
    ELSE IF name \in {ScpSrc, SavingsSCP} THEN FinCells[(i % Len(FinCells)) + 1]
    ELSE IF name = ContractStart THEN DateCells[j]
    ELSE IF name = ContractEnd THEN DateCells[(j % Len(DateCells)) + 1]
    ELSE Text

SampleRow(cols, i, j) == [c \in 1..Len(cols) |-> SampleCell(cols[c], i, j)]

RowKeys == (1..Len(FinCells)) \X (1..Len(DateCells))

RawDatasets ==
    {DataFrame(h, [r \in 1..n |-> SampleRow(h, ks[r][1], ks[r][2])]) :
        h \in Headers, n \in 0..MaxRows, ks \in [1..MaxRows -> RowKeys]}


-----------------------------------------------------------------------------
(* The script: cached load, then the success or the error branch *)

NoEntry == [u \in Urls |-> None]

\* A memoisation that keeps only the calls that returned a dataset.
Store_SuccessOnly(url, c, now, r) ==
    [hit |-> FALSE, reads |-> r.log, raised |-> r.raised, df |-> r.df, msg |-> r.msg,
     cache |-> IF r.raised \/ r.df = None THEN c
               ELSE [c EXCEPT ![url] = Some([df |-> r.df, msg |-> r.msg, at |-> now])]]

\* What a call that missed the cache leaves: the returned pair, stored
\* under the argument unless the function raised.
Store(url, c, now, r) ==
    [hit |-> FALSE, reads |-> r.log, raised |-> r.raised, df |-> r.df, msg |-> r.msg,
     cache |-> IF r.raised THEN c
               ELSE [c EXCEPT ![url] = Some([df |-> r.df, msg |-> r.msg, at |-> now])]]

\* What a call answered by the cache leaves: no read, the stored pair.
Hit(url, c) ==
    [hit |-> TRUE, reads |-> <<>>, raised |-> FALSE,
     df |-> c[url][1].df, msg |-> c[url][1].msg, cache |-> c]

\* A memoisation whose entries expire after one window.
cached_load_Ttl(url, o, fs, c, now) ==
    IF c[url] # None /\ now - c[url][1].at < 1
    THEN Hit(url, c)
    ELSE Store(url, c, now, load_data_from_onedrive(url, o, fs))

\* @st.cache_data on load_data_from_onedrive (line 144): the returned pair
\* is stored under the argument, with no ttl and no max_entries; an entry
\* answers every later call with that argument, each time with a fresh copy,
\* so the in-place preprocessing of a run does not reach the stored pair.
\* The time of the store is kept for reference only.
cached_load(url, o, fs, c, now) ==
    IF c[url] # None
    THEN Hit(url, c)
    ELSE Store(url, c, now, load_data_from_onedrive(url, o, fs))

\* st.cache_data.clear() (line 190).
cache_clear(c) == NoEntry

SuccessSteps == <<"success", "preprocess">>
DashboardSteps == <<"filters", "insights", "charts", "export">>
ErrorSteps == <<"error">>

\* Lines 208-677: the branch taken when a dataframe was loaded.  A failure
\* of the preprocessing block aborts the run before any later section.
SuccessBranch(df) ==
    LET n == normalize(df)
    IN  IF n.raised
        THEN [steps |-> SuccessSteps, exc |-> n.exc, frame |-> None]
        ELSE [steps |-> SuccessSteps \o DashboardSteps, exc |-> "", frame |-> n.val]

\* Lines 679-692: the branch taken when no dataframe was loaded.
ErrorBranch == [steps |-> ErrorSteps, exc |-> "", frame |-> None]

\* Line 206 and what the run keeps of the load.
Loaded(url, l) ==
    [url |-> url, hit |-> l.hit, reads |-> l.reads, df |-> l.df, msg |-> l.msg,
     cache |-> l.cache, shown |-> IF l.raised THEN "" ELSE l.msg]

\* A branch that renders the dashboard sections whatever the loader returned.
Branch_NoTest(l) ==
    IF l.df # None THEN SuccessBranch(l.df[1])
    ELSE [steps |-> ErrorSteps \o DashboardSteps, exc |-> "", frame |-> None]

\* Lines 208 and 679: the branch on "df is not None".
Branch(l) ==
    IF l.raised THEN [steps |-> <<>>, exc |-> "LoadError", frame |-> None]
    ELSE IF l.df # None THEN SuccessBranch(l.df[1])
    ELSE ErrorBranch

\* Lines 205-692: the script body after the sidebar, on the outcome l of
\* the cached load.
Render(url, l) == Loaded(url, l) @@ Branch(l)

\* Lines 205-692: one run of the script body after the sidebar.
Script(url, o, fs, c, now) == Render(url, cached_load(url, o, fs, c, now))

\* Inputs of the script runs.
NoFinanceFrame ==
    DataFrame(<<ScpSrc, ContractStart, Domain>>, <<<<Num(4), Date(Day1), Text>>>>)

AppRemote ==
    {Timeout,
     Response(404, Stream(TRUE, FALSE, FALSE, FALSE, {}, Frame(RemoteTag, 0))),
     Response(HttpOK, Workbook(TRUE, {SheetName}, Frame(RemoteTag, 1))),
     Response(HttpOK, Workbook(TRUE, {SheetName}, NoFinanceFrame))}

AppLocal ==
    {AbsentFile,
     Workbook(TRUE, {SheetName}, Frame(LocalTag, 2)),
     Stream(TRUE, TRUE, TRUE, FALSE, {}, Frame(LocalTag, 0))}

-----------------------------------------------------------------------------
(* Initial state *)

NoCall ==
    [called |-> FALSE, url |-> DefaultUrl, remote |-> Timeout, local |-> AbsentFile,
     out |-> [raised |-> FALSE, df |-> None, msg |-> "", log |-> <<>>]]

NoRun ==
    [url |-> DefaultUrl, hit |-> FALSE, reads |-> <<>>, df |-> None, msg |-> "",
     steps |-> <<>>, exc |-> "", frame |-> None, shown |-> "",
     age |-> 0, had |-> FALSE, up |-> FALSE, ran |-> FALSE]

NoFrame == DataFrame(<<>>, <<>>)

NoNorm == [done |-> FALSE, steps |-> <<>>, exc |-> "", frame |-> None]

NoView ==
    [done |-> FALSE, start |-> None, end |-> None, finance_fy |-> None,
     scp_fy |-> None, domain |-> None, filtered |-> NoFrame, total |-> 0]

Init ==
    /\ res = NoCall
    /\ cache = NoEntry
    /\ clock = 0
    /\ run = NoRun
    /\ raw = NoFrame
    /\ norm = NoNorm
    /\ again = NoNorm
    /\ view = NoView

-----------------------------------------------------------------------------
(* A direct call of the loader on one state of the world *)

InitLoad ==
    /\ \E u \in Urls, o \in RemoteOutcomes, l \in LocalFiles :
          res = [NoCall EXCEPT !.url = u, !.remote = o, !.local = l]
    /\ cache = NoEntry
    /\ clock = 0
    /\ run = NoRun
    /\ raw = NoFrame
    /\ norm = NoNorm
    /\ again = NoNorm
    /\ view = NoView

Resolve ==
    /\ ~res.called
    /\ res' = [res EXCEPT !.called = TRUE,
                          !.out = load_data_from_onedrive(res.url, res.remote,
                                                          FileSystem(res.local))]
    /\ UNCHANGED <<cache, clock, run, raw, norm, again, view>>

NextLoad == Resolve

SpecLoad == InitLoad /\ [][NextLoad]_vars

\* A stream that read_excel can open and that holds the named sheet.
Parses(f) == f.present /\ f.sig /\ f.wellformed /\ SheetName \in f.sheets

\* A remote outcome the loader accepts.
RemoteValid(o) == o.kind = "response" /\ o.status_code = HttpOK /\ Parses(o.content)

\* C1: the remote attempt comes first and alone; when it is valid its
\* dataset is the result and nothing else is read; the local file is read
\* only after the remote attempt has failed.
C1_FirstValidWins ==
    res.called =>
        /\ Len(res.out.log) >= 1
        /\ res.out.log[1] = Get(res.url)
        /\ RemoteValid(res.remote) =>
              /\ res.out.log = <<Get(res.url)>>
              /\ res.out.df = Some(res.remote.content.data[SheetName])
              /\ res.out.msg = MsgRemote
        /\ ~RemoteValid(res.remote) => res.out.log = <<Get(res.url), Read(LocalPath)>>
        /\ \A i \in 1..Len(res.out.log) :
              res.out.log[i].op = "READ" => i > 1 /\ ~RemoteValid(res.remote)

C1_Witness ==
    /\ res.called
    /\ RemoteValid(res.remote)
    /\ Parses(res.local)
    /\ res.out.df = Some(Frame(RemoteTag, MaxRows))
    /\ res.out.log = <<Get(res.url)>>

\* C2: no failure of the remote attempt escapes the loader; each one leads
\* to the local fallback, and the loader always returns a pair of an
\* optional dataset and one of its messages.
C2_FailuresNeverEscape ==
    res.called =>
        /\ ~res.out.raised
        /\ Len(res.out.df) \in {0, 1}
        /\ res.out.msg \in {MsgRemote, MsgLocal, MsgUnable}
        /\ ~RemoteValid(res.remote) =>
              /\ Read(LocalPath) \in Range(res.out.log)
              /\ res.out.msg \in {MsgLocal, MsgUnable}
              /\ res.out.df # None <=> Parses(res.local)

C2_Witness ==
    /\ res.called
    /\ res.remote.kind = "response"
    /\ res.remote.status_code = HttpOK
    /\ res.remote.content.wellformed
    /\ SheetName \notin res.remote.content.sheets
    /\ res.out.msg = MsgLocal

\* C3 as stated: a remote payload is the source of the result only if the
\* status is a success, the size exceeds the threshold and the signature is
\* a spreadsheet signature.
C3_Original ==
    (res.called /\ res.out.msg = MsgRemote) =>
        /\ res.remote.status_code = HttpOK
        /\ res.remote.content.big
        /\ res.remote.content.sig

\* C3: a remote payload is the source of the result only if the status is
\* 200 and the payload opens as a workbook, which needs a spreadsheet
\* signature, holding the named sheet; the size plays no part.
C3_AcceptedOnlyIfOkAndParses ==
    (res.called /\ res.out.msg = MsgRemote) =>
        /\ res.remote.kind = "response"
        /\ res.remote.status_code = HttpOK
        /\ res.remote.content.sig
        /\ res.remote.content.wellformed
        /\ SheetName \in res.remote.content.sheets
        /\ res.out.df = Some(res.remote.content.data[SheetName])

C3_Witness ==
    /\ res.called
    /\ res.out.msg = MsgRemote
    /\ ~res.remote.content.big
    /\ res.out.df = Some(Frame(RemoteTag, 1))

\* C4 as stated: the loader never returns a dataset with zero rows.
C4_Original ==
    (res.called /\ res.out.df # None) => Len(res.out.df[1].rows) > 0

\* C4: a sheet with zero rows is a result like any other: from a valid
\* remote payload it is returned with the success message and the local
\* file is not read; from the local file it is returned as the fallback.
C4_EmptySheetIsReturned ==
    /\ (res.called /\ RemoteValid(res.remote)
            /\ Len(res.remote.content.data[SheetName].rows) = 0) =>
          /\ res.out.df = Some(res.remote.content.data[SheetName])
          /\ res.out.msg = MsgRemote
          /\ res.out.log = <<Get(res.url)>>
    /\ (res.called /\ ~RemoteValid(res.remote) /\ Parses(res.local)
            /\ Len(res.local.data[SheetName].rows) = 0) =>
          /\ res.out.df = Some(res.local.data[SheetName])
          /\ res.out.msg = MsgLocal

C4_Witness ==
    /\ res.called
    /\ RemoteValid(res.remote)
    /\ Parses(res.local)
    /\ Len(res.local.data[SheetName].rows) > 0
    /\ res.out.df # None
    /\ Len(res.out.df[1].rows) = 0
    /\ res.out.log = <<Get(res.url)>>

\* C5 as stated: after the remote attempt failed, the message returned for
\* a local file that is present but unreadable differs from the message
\* returned for an absent local file.
C5_Original ==
    (res.called /\ ~RemoteValid(res.remote) /\ res.local.present /\ res.out.df = None) =>
        res.out.msg #
            load_data_from_onedrive(res.url, res.remote, FileSystem(AbsentFile)).msg

\* C5: after the remote attempt failed the loader reads the named sheet of
\* the fixed local file; when that fails it returns no dataset and one
\* message, the same for an absent and for an unreadable file, which is
\* neither of the success messages.
C5_LocalFallbackOutcome ==
    (res.called /\ ~RemoteValid(res.remote)) =>
        /\ res.out.log = <<Get(res.url), Read(LocalPath)>>
        /\ Parses(res.local) =>
              /\ res.out.df = Some(res.local.data[SheetName])
              /\ res.out.msg = MsgLocal
        /\ ~Parses(res.local) =>
              /\ res.out.df = None
              /\ res.out.msg = MsgUnable
              /\ res.out.msg \notin {MsgRemote, MsgLocal}

C5_Witness ==
    /\ res.called
    /\ ~RemoteValid(res.remote)
    /\ ~res.local.present
    /\ res.out.df = None
    /\ res.out.msg = MsgUnable

-----------------------------------------------------------------------------
(* The preprocessing block on a raw dataset *)

InitNorm ==
    /\ res = NoCall
    /\ cache = NoEntry
    /\ clock = 0
    /\ run = NoRun
    /\ raw \in RawDatasets
    /\ norm = NoNorm
    /\ again = NoNorm
    /\ view = NoView

Normalize ==
    /\ ~norm.done
    /\ norm' = [done |-> TRUE] @@ SuccessBranch(raw)
    /\ UNCHANGED <<res, cache, clock, run, raw, again, view>>

\* The preprocessing block applied to the dataset it produced.
Renormalize ==
    /\ norm.done
    /\ norm.exc = ""
    /\ ~again.done
    /\ again' = [done |-> TRUE] @@ SuccessBranch(norm.frame[1])
    /\ UNCHANGED <<res, cache, clock, run, raw, norm, view>>

NextNorm == Normalize \/ Renormalize

SpecNorm == InitNorm /\ [][NextNorm]_vars

-----------------------------------------------------------------------------
(* Claims about the preprocessing block *)

FinanceNames == {SavingsFinance, SavingsSCP}
DateNames == Range(date_columns)

\* C8: after the preprocessing block every cell of Savings_Finance and
\* Savings_SCP is a number: a numeric source value is kept as it is, a
\* missing value or one that fails the conversion is exactly 0, and the
\* rows are all there.
C8_FinancialCellsNumeric ==
    (norm.done /\ norm.exc = "") =>
        LET out == norm.frame[1]
        IN  /\ Len(out.rows) = Len(raw.rows)
            /\ \A name \in FinanceNames : Cardinality(ColPos(out, name)) = 1
            /\ \A i \in 1..Len(out.cols), r \in 1..Len(out.rows) :
                  out.cols[i] \in FinanceNames =>
                      /\ out.rows[r][i].k = "num"
                      /\ raw.rows[r][i].k = "num" => out.rows[r][i] = raw.rows[r][i]
                      /\ raw.rows[r][i].k \in {"null", "text"} => out.rows[r][i] = Num(0)

C8_Witness ==
    /\ norm.done
    /\ norm.exc = ""
    /\ \E i \in 1..Len(raw.cols), r1, r2 \in 1..Len(raw.rows) :
          /\ raw.cols[i] = FinSrc
          /\ raw.rows[r1][i] = Text
          /\ raw.rows[r2][i] = Num(3)
          /\ norm.frame[1].rows[r1][i] = Num(0)
          /\ norm.frame[1].rows[r2][i] = Num(3)

\* C9: a raw dataset without one of the two financial columns makes the
\* preprocessing block fail with a KeyError that ends the run: there is no
\* normalized dataset, no column of zeros, and no later section runs.
C9_MissingFinancialColumnFails ==
    (norm.done /\ (\/ {FinSrc, SavingsFinance} \cap Range(raw.cols) = {}
                   \/ {ScpSrc, SavingsSCP} \cap Range(raw.cols) = {})) =>
        /\ norm.exc = "KeyError"
        /\ norm.frame = None
        /\ Range(norm.steps) \cap Range(DashboardSteps) = {}

C9_Witness ==
    /\ norm.done
    /\ FinSrc \in Range(raw.cols)
    /\ {ScpSrc, SavingsSCP} \cap Range(raw.cols) = {}
    /\ Len(raw.rows) > 0
    /\ norm.exc = "KeyError"

\* C10: in a designated date column that is present an unparseable value
\* becomes the null marker and a date stays the date it was; a designated
\* date column that is absent is not created; the cells of the columns that
\* are neither date nor financial columns are the cells of the raw dataset.
C10_DateCoercion ==
    (norm.done /\ norm.exc = "") =>
        LET out == norm.frame[1]
        IN  /\ Len(out.cols) = Len(raw.cols)
            /\ Len(out.rows) = Len(raw.rows)
            /\ \A d \in DateNames : HasCol(out, d) <=> HasCol(raw, d)
            /\ \A i \in 1..Len(raw.cols), r \in 1..Len(raw.rows) :
                  /\ raw.cols[i] \in DateNames =>
                        /\ out.cols[i] = raw.cols[i]
                        /\ out.rows[r][i].k \in {"date", "datetime", "null"}
                        /\ raw.rows[r][i].k \in {"text", "null"} => out.rows[r][i] = Null
                        /\ raw.rows[r][i].k \in {"date", "datetime"} =>
                              out.rows[r][i] = raw.rows[r][i]
                  /\ out.cols[i] \notin DateNames \cup FinanceNames =>
                        /\ out.cols[i] = raw.cols[i]
                        /\ out.rows[r][i] = raw.rows[r][i]
                  /\ out.cols[i] \in FinanceNames => out.rows[r][i].k = "num"

C10_Witness ==
    /\ norm.done
    /\ norm.exc = ""
    /\ ~HasCol(raw, ContractEnd)
    /\ ~HasCol(norm.frame[1], ContractEnd)
    /\ \E i \in 1..Len(raw.cols), r1, r2 \in 1..Len(raw.rows) :
          /\ raw.cols[i] = ContractStart
          /\ raw.rows[r1][i] = Text
          /\ raw.rows[r2][i] = Date(Day1)
          /\ norm.frame[1].rows[r1][i] = Null
          /\ norm.frame[1].rows[r2][i] = Date(Day1)


\* The value the preprocessing block gives a cell of the column name.
Image(name, c) ==
    IF name \in {FinSrc, ScpSrc} \cup FinanceNames
    THEN IF c.k \in {"num", "numstr"} THEN Num(c.v) ELSE Num(0)
    ELSE IF name \in DateNames
    THEN IF c.k \in {"date", "datetime"} THEN c
         ELSE IF c.k = "datestr" THEN Date(c.v)
         ELSE IF c.k = "num" THEN DateTime(0)
         ELSE Null
    ELSE c

\* C11: the preprocessing block keeps the rows: the result has as many
\* rows as the raw dataset and its r-th row is the r-th raw row, converted;
\* no row is dropped, repeated or moved.
C11_RowsPreserved ==
    (norm.done /\ norm.exc = "") =>
        /\ Len(norm.frame[1].rows) = Len(raw.rows)
        /\ \A r \in 1..Len(raw.rows) :
              /\ Len(norm.frame[1].rows[r]) = Len(raw.cols)
              /\ \A i \in 1..Len(raw.cols) :
                    norm.frame[1].rows[r][i] = Image(raw.cols[i], raw.rows[r][i])

C11_Witness ==
    /\ norm.done
    /\ norm.exc = ""
    /\ Len(raw.rows) = MaxRows
    /\ Len(norm.frame[1].rows) = MaxRows
    /\ raw.rows[1] # raw.rows[2]
    /\ norm.frame[1].rows[1] # norm.frame[1].rows[2]
    /\ \E i \in 1..Len(raw.cols) :
          /\ raw.cols[i] = ContractStart
          /\ raw.rows[1][i] = Text
          /\ norm.frame[1].rows[1][i] = Null

\* C12: the preprocessing block applied to its own result succeeds and
\* gives that result again: same columns, same values, same row order.
C12_Idempotent ==
    again.done =>
        /\ again.exc = ""
        /\ again.frame = norm.frame
        /\ again.steps = norm.steps

C12_Witness ==
    /\ again.done
    /\ again.frame = norm.frame
    /\ norm.frame # Some(raw)
    /\ HasCol(raw, FinSrc)
    /\ HasCol(again.frame[1], SavingsFinance)
    /\ \E i \in 1..Len(raw.cols), r \in 1..Len(raw.rows) :
          /\ raw.cols[i] = ContractStart
          /\ raw.rows[r][i] = Text
          /\ again.frame[1].rows[r][i] = Null

-----------------------------------------------------------------------------
(* The filters, lines 233-323, and the record count, line 628 *)

FYFinance == "FY of Savings-Finance"
FYSCP == "FY of Savings-SCP"

\* A text value of a categorical column.
Str(n) == [k |-> "text", v |-> n]

\* The order of timestamps: a day at midnight comes before the same day at
\* a later time of day, which comes before the next day at midnight.
Stamp(c) == 2 * c.v + (IF c.k = "datetime" THEN 1 ELSE 0)

\* pd.Timestamp(d) of a datetime.date d: that day at midnight.
Timestamp(d) == Date(d)

\* Timestamp.date(): the day, without the time of day.
date(c) == c.v

\* The position of a label that occurs once among the columns.
At(df, name) == CHOOSE i \in ColPos(df, name) : TRUE

\* The values of df[name] that are not NaN/NaT.
NotNa(df, name) ==
    {df.rows[r][At(df, name)] : r \in 1..Len(df.rows)} \ {Null}

\* Series.min() and Series.max(): nulls are skipped, and the result is
\* null (None here) when nothing is left.
Min(cells) ==
    IF cells = {} THEN None
    ELSE Some(CHOOSE c \in cells : \A d \in cells : Stamp(c) <= Stamp(d))

Max(cells) ==
    IF cells = {} THEN None
    ELSE Some(CHOOSE c \in cells : \A d \in cells : Stamp(d) <= Stamp(c))

\* The days a user is offered besides the two ends of the range.
Day15 == 19500
PickDays == {Day1, Day15, Day2}

\* st.date_input(value, min_value, max_value): the day picked by the user,
\* between min_value and max_value; value until the user picks one.
date_input(value, min_value, max_value) ==
    {Some(d) : d \in {p \in PickDays \cup {value, min_value, max_value} :
                         min_value <= p /\ p <= max_value}}

\* A date widget shown although the column has no bounds.
DateWidget_Unguarded(mn, mx) ==
    IF mn # None /\ mx # None
    THEN date_input(date(mn[1]), date(mn[1]), date(mx[1]))
    ELSE {Some(Day1)}

\* Lines 238-246 and 255-263: the widget is shown when min and max are not
\* null; otherwise the filter is None.
DateWidget(mn, mx) ==
    IF mn # None /\ mx # None
    THEN date_input(date(mn[1]), date(mn[1]), date(mx[1]))
    ELSE {None}

\* Lines 235-248 and 252-265: the values the date filter of a column can have.
DateFilters(df, name) ==
    IF HasCol(df, name)
    THEN DateWidget(Min(NotNa(df, name)), Max(NotNa(df, name)))
    ELSE {None}

\* Line 241: the Contract Start filter starts at the column minimum.
StartDefault(df) ==
    IF HasCol(df, ContractStart) /\ NotNa(df, ContractStart) # {}
    THEN Some(date(Min(NotNa(df, ContractStart))[1]))
    ELSE None

\* Line 258: the Contract End filter starts at the column maximum.
EndDefault(df) ==
    IF HasCol(df, ContractEnd) /\ NotNa(df, ContractEnd) # {}
    THEN Some(date(Max(NotNa(df, ContractEnd))[1]))
    ELSE None

\* Lines 269-300: st.selectbox over "All" and the values of the column;
\* None stands for the first option, "All" or "All Domains".
selectbox(df, name) ==
    IF HasCol(df, name)
    THEN {None} \cup {Some(c) : c \in NotNa(df, name)}
    ELSE {None}

\* Lines 308-309: a comparison with NaT is False.
FilterStart(df, rows, f) ==
    IF f # None /\ HasCol(df, ContractStart)
    THEN SelectSeq(rows, LAMBDA row :
            /\ row[At(df, ContractStart)] # Null
            /\ Stamp(row[At(df, ContractStart)]) >= Stamp(Timestamp(f[1])))
    ELSE rows

\* Lines 311-312.
FilterEnd(df, rows, f) ==
    IF f # None /\ HasCol(df, ContractEnd)
    THEN SelectSeq(rows, LAMBDA row :
            /\ row[At(df, ContractEnd)] # Null
            /\ Stamp(row[At(df, ContractEnd)]) <= Stamp(Timestamp(f[1])))
    ELSE rows

\* Lines 315-323: the rows whose value equals the selected option.
FilterEq(df, rows, name, f) ==
    IF f # None
    THEN SelectSeq(rows, LAMBDA row : row[At(df, name)] = f[1])
    ELSE rows

\* Lines 305-323: the filters, one after the other.
ApplyFilters(df, s, e, ff, fs, dom) ==
    FilterEq(df,
      FilterEq(df,
        FilterEq(df,
          FilterEnd(df, FilterStart(df, df.rows, s), e),
          FYFinance, ff),
        FYSCP, fs),
      Domain, dom)

\* Lines 305 and 628: filtered_df and total_records = len(filtered_df).
View(df, s, e, ff, fs, dom, rows) ==
    [done |-> TRUE, start |-> s, end |-> e, finance_fy |-> ff,
     scp_fy |-> fs, domain |-> dom,
     filtered |-> DataFrame(df.cols, rows), total |-> Len(rows)]

\* What lines 233-323 can give on the preprocessed dataset df.
Views(df) ==
    {View(df, s, e, ff, fs, dom, ApplyFilters(df, s, e, ff, fs, dom)) :
        s \in DateFilters(df, ContractStart),
        e \in DateFilters(df, ContractEnd),
        ff \in selectbox(df, FYFinance),
        fs \in selectbox(df, FYSCP),
        dom \in selectbox(df, Domain)}

\* Loaded workbooks with dates at midnight, dates with a time of day,
\* text and blanks in the date columns.
StartCells == <<Date(Day1), Date(Day2), Text>>
EndCells == <<Date(Day1), DateTime(Day2), Null>>

FilterHeaders ==
    {FullCols,
     <<FinSrc, ScpSrc, ContractEnd, Domain>>,
     <<FinSrc, ScpSrc, ContractStart, FYFinance, FYSCP>>}

FilterCell(name, i, j) ==
    IF name \in {FinSrc, ScpSrc} THEN Num(3)
    ELSE IF name = ContractStart THEN StartCells[i]
    ELSE IF name = ContractEnd THEN EndCells[j]
    ELSE IF name = FYFinance THEN Str(i % 2)
    ELSE IF name = FYSCP THEN Str(j % 2)
    ELSE Str((i + j) % 2)

FilterRow(cols, i, j) == [c \in 1..Len(cols) |-> FilterCell(cols[c], i, j)]

FilterKeys == (1..Len(StartCells)) \X (1..Len(EndCells))

FilterDatasets ==
    {DataFrame(h, [r \in 1..n |-> FilterRow(h, ks[r][1], ks[r][2])]) :
        h \in FilterHeaders, n \in 0..MaxRows, ks \in [1..MaxRows -> FilterKeys]}

InitFilter ==
    /\ res = NoCall
    /\ cache = NoEntry
    /\ clock = 0
    /\ run = NoRun
    /\ raw \in FilterDatasets
    /\ norm = NoNorm
    /\ again = NoNorm
    /\ view = NoView

\* One run of lines 208-323 and 628 on the loaded dataset, with the
\* widgets in one of the states the user can put them in.
Dashboard ==
    \E n \in {SuccessBranch(raw)} :
        /\ norm' = [done |-> TRUE] @@ n
        /\ IF n.exc = ""
           THEN \E v \in Views(n.frame[1]) : view' = v
           ELSE view' = NoView
        /\ UNCHANGED <<res, cache, clock, run, raw, again>>

NextFilter == Dashboard

SpecFilter == InitFilter /\ [][NextFilter]_vars

-----------------------------------------------------------------------------
(* Claims about the filters *)

\* The preprocessed dataset the filters of the last run worked on.
Data == norm.frame[1]

\* A date column with no bounds: absent, or without any parseable value.
NoBounds(name) == ~HasCol(Data, name) \/ NotNa(Data, name) = {}

\* The row passes the date filter f on the column name (>= or <=).
PassesStart(row) ==
    view.start = None \/
        /\ row[At(Data, ContractStart)] # Null
        /\ Stamp(row[At(Data, ContractStart)]) >= 2 * view.start[1]

PassesEnd(row) ==
    view.end = None \/
        /\ row[At(Data, ContractEnd)] # Null
        /\ Stamp(row[At(Data, ContractEnd)]) <= 2 * view.end[1]

PassesSelect(row) ==
    /\ view.finance_fy = None \/ row[At(Data, FYFinance)] = view.finance_fy[1]
    /\ view.scp_fy = None \/ row[At(Data, FYSCP)] = view.scp_fy[1]
    /\ view.domain = None \/ row[At(Data, Domain)] = view.domain[1]

\* C13: a date filter whose column is absent, or has no parseable value,
\* is skipped: the filtered set is exactly the rows that pass the other
\* filters, whatever those select.
C13_DateFilterSkipped ==
    view.done =>
        /\ NoBounds(ContractStart) =>
              /\ view.start = None
              /\ view.filtered.rows =
                    SelectSeq(Data.rows,
                              LAMBDA row : PassesEnd(row) /\ PassesSelect(row))
        /\ NoBounds(ContractEnd) =>
              /\ view.end = None
              /\ view.filtered.rows =
                    SelectSeq(Data.rows,
                              LAMBDA row : PassesStart(row) /\ PassesSelect(row))
        /\ view.total = Len(view.filtered.rows)

C13_Witness ==
    /\ view.done
    /\ HasCol(Data, ContractStart)
    /\ NotNa(Data, ContractStart) = {}
    /\ Len(Data.rows) = MaxRows
    /\ view.start = None
    /\ view.end # None
    /\ view.domain # None
    /\ view.total = 1

\* Every filter is as the first run shows it.
AtDefaults ==
    /\ view.start = StartDefault(Data)
    /\ view.end = EndDefault(Data)
    /\ view.finance_fy = None
    /\ view.scp_fy = None
    /\ view.domain = None

\* The row has a value in every date column that has a parseable date.
NonNullDates(row) ==
    /\ ~NoBounds(ContractStart) => row[At(Data, ContractStart)] # Null
    /\ ~NoBounds(ContractEnd) => row[At(Data, ContractEnd)] # Null

\* The filter of a date column with a parseable date is always set and
\* lets no null through.
NullsExcluded ==
    view.done =>
        /\ ~NoBounds(ContractStart) => view.start # None
        /\ ~NoBounds(ContractEnd) => view.end # None
        /\ \A r \in 1..Len(view.filtered.rows) :
              NonNullDates(view.filtered.rows[r])

\* C15: a date column with a parseable date always has its filter set, so
\* no row with a null in that column is in the filtered set; with every
\* filter at its default the filtered set is exactly the rows with a value
\* in each such date column.
C15_NullDatesFiltered ==
    /\ NullsExcluded
    /\ (view.done /\ AtDefaults) =>
          view.filtered.rows = SelectSeq(Data.rows, NonNullDates)

\* The default Contract End filter leaves out a row that has a date.
C15_DefaultDropsDatedRow ==
    /\ view.done
    /\ AtDefaults
    /\ \E r \in 1..Len(Data.rows) :
          /\ NonNullDates(Data.rows[r])
          /\ Data.rows[r][At(Data, ContractEnd)] = DateTime(Day2)
          /\ \A q \in 1..Len(view.filtered.rows) :
                view.filtered.rows[q] # Data.rows[r]

-----------------------------------------------------------------------------
(* The application: script runs, the Reload Data button, passing time *)

\* What a run leaves behind: the observation of the run and the cache. The
\* observation notes whether the URL would have served a valid workbook
\* during the run (up), whether the cache had an entry for it (had) and
\* how old that entry was (age).
RunWith(url, o, l, c) ==
    \E r \in {Script(url, o, FileSystem(l), c, clock)} :
        /\ run' = [url |-> r.url, hit |-> r.hit, reads |-> r.reads, df |-> r.df,
                   msg |-> r.msg, steps |-> r.steps, exc |-> r.exc,
                   frame |-> r.frame, shown |-> r.shown,
                   age |-> IF c[url] # None THEN clock - c[url][1].at ELSE 0,
                   had |-> c[url] # None, up |-> RemoteValid(o), ran |-> TRUE]
        /\ cache' = r.cache

\* A rerun of the script with the URL of the text input unchanged.
RunScript ==
    /\ \E o \in AppRemote, l \in AppLocal : RunWith(run.url, o, l, cache)
    /\ UNCHANGED <<res, clock, raw, norm, again, view>>

\* The user edits the text input (lines 183-187), which reruns the script.
EditUrl ==
    /\ \E u \in Urls \ {run.url}, o \in AppRemote, l \in AppLocal :
          RunWith(u, o, l, cache)
    /\ UNCHANGED <<res, clock, raw, norm, again, view>>

\* The Reload Data button (lines 189-191): clear the cache, rerun.
ReloadData ==
    /\ run.ran
    /\ \E o \in AppRemote, l \in AppLocal :
          RunWith(run.url, o, l, cache_clear(cache))
    /\ UNCHANGED <<res, clock, raw, norm, again, view>>

\* One window of the specification (five minutes) passes.
Tick ==
    /\ clock < MaxClock
    /\ clock' = clock + 1
    /\ UNCHANGED <<res, cache, run, raw, norm, again, view>>

Next == RunScript \/ EditUrl \/ ReloadData \/ Tick

Spec == Init /\ [][Next]_vars


-----------------------------------------------------------------------------
(* Claims about the cache and the script run *)

\* C6 as stated: a cached result answers a run with the same URL within
\* the window, and once the window has elapsed the run fetches again.
C6_Original ==
    run.ran =>
        /\ (run.had /\ run.age < 1) => run.reads = <<>>
        /\ (run.had /\ run.age >= 1) => run.reads # <<>>
        /\ ~run.had => run.reads # <<>>

\* C6: a loaded result is kept under its URL without any time limit: a
\* run whose URL has an entry performs no read and gets the stored result,
\* however old; a run whose URL has no entry, because the URL is another
\* one or because Reload Data cleared the cache, fetches and stores.
C6_CachedUntilCleared ==
    [][run' # run =>
          /\ run'.had = run'.hit
          /\ (run'.hit /\ cache[run'.url] # None) =>
                /\ run'.reads = <<>>
                /\ run'.df = cache[run'.url][1].df
                /\ run'.msg = cache[run'.url][1].msg
          /\ ~run'.hit =>
                /\ Len(run'.reads) >= 1
                /\ run'.reads[1] = Get(run'.url)
                /\ cache'[run'.url] =
                      Some([df |-> run'.df, msg |-> run'.msg, at |-> clock])]_vars

C6_Witness ==
    /\ run.ran
    /\ run.had
    /\ run.age >= 1
    /\ run.hit
    /\ run.reads = <<>>
    /\ run.df # None

\* C7: a run in which the loader returned no dataset renders the error
\* state with the loader's message and nothing else; the preprocessing and
\* the dashboard sections run only in a run that has a dataset.
C7_ErrorStateOnly ==
    run.ran =>
        /\ run.df = None =>
              /\ run.steps = ErrorSteps
              /\ run.shown = run.msg
              /\ run.frame = None
        /\ Range(run.steps) \cap Range(SuccessSteps \o DashboardSteps) # {} =>
              run.df # None
        /\ run.df # None => "error" \notin Range(run.steps)

C7_Witness ==
    /\ run.ran
    /\ run.df = None
    /\ run.msg = MsgUnable
    /\ run.steps = ErrorSteps

\* C14: the cache keeps whatever the loader returned for a URL, a local
\* fallback dataset and a failure included, and never expires it: a run
\* whose URL has an entry returns the stored pair without any read and
\* leaves the cache as it is, whether or not the URL would now serve a
\* valid workbook; a run after Reload Data finds no entry, reads again
\* starting with the URL, and its result is the only entry left.
C14_StaleUntilReload ==
    [][run' # run =>
          /\ cache'[run'.url] # None
          /\ cache'[run'.url][1].df = run'.df
          /\ cache'[run'.url][1].msg = run'.msg
          /\ (cache[run'.url] # None /\ run'.had) =>
                /\ run'.reads = <<>>
                /\ cache' = cache
                /\ run'.df = cache[run'.url][1].df
                /\ run'.msg = cache[run'.url][1].msg
          /\ (cache[run'.url] # None /\ ~run'.had) =>
                /\ run'.url = run.url
                /\ Len(run'.reads) >= 1
                /\ run'.reads[1] = Get(run'.url)
                /\ run'.up => run'.msg = MsgRemote
                /\ cache' = [NoEntry EXCEPT ![run'.url] =
                                Some([df |-> run'.df, msg |-> run'.msg, at |-> clock])]
          /\ cache[run'.url] = None =>
                /\ ~run'.had
                /\ Len(run'.reads) >= 1]_vars

C14_Witness ==
    /\ run.ran
    /\ run.had
    /\ run.up
    /\ run.age >= 1
    /\ run.reads = <<>>
    /\ run.df = None
    /\ run.msg = MsgUnable
    /\ cache[run.url] = Some([df |-> None, msg |-> MsgUnable, at |-> clock - run.age])

====
